---- MODULE Spec2Model ----
\* Model of the C++ code generator of onlinejudge_template
\* (library/cplusplus.py), of the generator entry point (generator/__init__.py)
\* and of the orchestration loop prepare_problem (onlinejudge_contest/main.py).
\*
\* Python strings are TLA+ strings, built with \o exactly as the f-strings of
\* the source build them.  A value of the style dictionary is a tagged record
\* [kind, val] so that strings, callables, integers, booleans and None can be
\* told apart the way isinstance() / callable() tell them apart.
EXTENDS Integers, Sequences, FiniteSets, TLC

VARIABLES
    data,       \* the dict handed to the library: [input |-> tree, config |-> dict]
    fn,         \* the library function being (or last) called
    nestArg,    \* the keyword argument nest of read_input / write_output
    lines,      \* the lines the generator yields before finishing or raising
    genRaises,  \* TRUE when the generator raises after yielding lines
    pos,        \* number of lines consumed by the loop of _join_with_indent
    nest,       \* the local variable nest of _join_with_indent
    buf,        \* the local list buf of _join_with_indent
    nestTrace,  \* the values nest had after each consumed line
    result,     \* the value returned by the call (NoResult while none)
    pc,         \* "idle", "indenting", "returned", "raised"
    table,      \* prepare_problem: the template table, a sequence of entries
    exists,     \* prepare_problem: the destination files present on disk
    idx,        \* prepare_problem: number of table entries already iterated
    stage,      \* prepare_problem: position inside the current iteration
    input_node, \* prepare_problem: "None" or "ast"
    output_node,\* prepare_problem: "None" or "ast"
    written,    \* prepare_problem: destinations written by this run
    log,        \* prepare_problem: the logger.error messages, in order
    mainPc      \* prepare_problem: "loop", "download", "done", "aborted"

libVars == <<data, fn, nestArg, lines, genRaises, pos, nest, buf, nestTrace, result, pc>>
mainVars == <<table, exists, idx, stage, input_node, output_node, written, log, mainPc>>
vars == <<data, fn, nestArg, lines, genRaises, pos, nest, buf, nestTrace, result, pc,
          table, exists, idx, stage, input_node, output_node, written, log, mainPc>>

-----------------------------------------------------------------------------
\* Bounds of the model.

\* height of the format trees
MaxHeight == 2
\* the caller-supplied nest ranges over 0 .. MaxNest
MaxNest == 1
\* number of entries of the template table
MaxTemplates == 2

-----------------------------------------------------------------------------
\* Python string helpers.

startswith(s, p) == Len(s) >= Len(p) /\ SubSeq(s, 1, Len(p)) = p

endswith(s, p) == Len(s) >= Len(p) /\ SubSeq(s, Len(s) - Len(p) + 1, Len(s)) = p

\* s * n : the empty string when n <= 0
RECURSIVE StrMul(_, _)
StrMul(s, n) == IF n <= 0 THEN "" ELSE s \o StrMul(s, n - 1)

\* sep.join(strs)
RECURSIVE StrJoin(_, _)
StrJoin(sep, strs) ==
    IF Len(strs) = 0 THEN ""
    ELSE IF Len(strs) = 1 THEN strs[1]
    ELSE strs[1] \o sep \o StrJoin(sep, Tail(strs))

\* number of (possibly overlapping) occurrences of p in s
RECURSIVE StrCount(_, _)
StrCount(s, p) ==
    IF Len(s) < Len(p) THEN 0
    ELSE (IF startswith(s, p) THEN 1 ELSE 0) + StrCount(Tail(s), p)

-----------------------------------------------------------------------------
\* Values of the style dictionary and the dictionary itself.

None == [kind |-> "None", val |-> ""]
PyStr(s) == [kind |-> "str", val |-> s]
PyCallable(h) == [kind |-> "callable", val |-> h]
PyInt(s) == [kind |-> "int", val |-> s]
PyBool(s) == [kind |-> "bool", val |-> s]

\* dict.get(key, default)
Get(config, key, default) == IF key \in DOMAIN config THEN config[key] ELSE default

\* truth value of a Python object
Truthy(v) ==
    CASE v.kind = "None" -> FALSE
      [] v.kind = "bool" -> v.val = "True"
      [] v.kind = "int" -> v.val # "0"
      [] v.kind = "str" -> v.val # ""
      [] OTHER -> TRUE

\* The hooks a caller supplies: each is a function from its arguments to text.
ScannerHook(var) == "read(" \o var \o ");"
PrinterHook(var) == "print(" \o var \o ");"
RepHook(var, size) == "for (int " \o var \o " : range(" \o size \o "))"

OptionValues ==
    [ scanner |-> {PyStr("scanf"), PyStr("cin"), PyStr("std::cin"), PyCallable("ScannerHook"), PyInt("42")},
      printer |-> {PyStr("printf"), PyStr("cout"), PyCallable("PrinterHook"), PyInt("42")},
      rep_macro |-> {PyStr("REP"), PyCallable("RepHook"), PyInt("42")},
      indent |-> {PyStr("  ")},
      using_namespace_std |-> {PyBool("False")} ]

OptionNames == DOMAIN OptionValues

\* a dict with the one key k
Only(k, v) == [x \in {k} |-> v]

\* a dict with using_namespace_std = False and the key k
NoStdAnd(k, v) ==
    [x \in {k, "using_namespace_std"} |-> IF x = k THEN v ELSE PyBool("False")]

\* the style dictionaries: the empty one, each option set alone to each of its
\* values, and using_namespace_std = False together with each option whose
\* output then carries std::
StyleConfigs ==
    {<<>>}
    \cup UNION {{Only(k, v) : v \in OptionValues[k]} : k \in OptionNames}
    \cup {NoStdAnd("scanner", PyStr("cin")),
          NoStdAnd("printer", PyStr("cout")),
          NoStdAnd("rep_macro", PyStr("REP"))}

-----------------------------------------------------------------------------
\* The format tree (onlinejudge_template.types.FormatNode).

ItemNode(name, indices) == [type |-> "ItemNode", name |-> name, indices |-> indices]
NewlineNode == [type |-> "NewlineNode"]
SequenceNode(items) == [type |-> "SequenceNode", items |-> items]
LoopNode(name, size, body) == [type |-> "LoopNode", name |-> name, size |-> size, body |-> body]

ItemNames == {"a", "b"}
\* the loop variable and the size expression of a loop with d loops around it
LoopVars == <<"i", "j", "k", "l", "p", "q">>
LoopSizes == <<"n", "m", "h", "w", "r", "c">>

\* the items that may stand under d loops: indexed by the d loop variables,
\* outer to inner
Items(d) == {ItemNode(nm, SubSeq(LoopVars, 1, d)) : nm \in ItemNames}

Leaves(d) == Items(d) \cup {NewlineNode}

\* the trees of height at most h that may stand under d loops
RECURSIVE Trees(_, _)
Trees(h, d) ==
    IF h = 0 THEN Leaves(d)
    ELSE Leaves(d)
         \cup {LoopNode(LoopVars[d + 1], LoopSizes[d + 1], b) : b \in Trees(h - 1, d + 1)}
         \cup {SequenceNode(<<xy[1], t, xy[2]>>) :
                  xy \in {p \in Items(d) \X Items(d) : p[1].name # p[2].name},
                  t \in Trees(h - 1, d)}

FormatTrees == Trees(MaxHeight, 0)

-----------------------------------------------------------------------------
\* common.list_used_items: the dimension table, an ordered dict kept as the
\* sequence of its (name, dims) entries in insertion order.

HasKey(used, name) == \E n \in 1..Len(used) : used[n].name = name

Lookup(used, name) == used[CHOOSE n \in 1..Len(used) : used[n].name = name].dims

Keys(used) == [n \in 1..Len(used) |-> used[n].name]

RECURSIVE ListUsedDfs(_, _, _)
ListUsedDfs(node, sizes, used) ==
    CASE node.type = "ItemNode" ->
            IF HasKey(used, node.name) THEN used
            ELSE Append(used, [name |-> node.name, dims |-> sizes])
      [] node.type = "NewlineNode" -> used
      [] node.type = "SequenceNode" ->
            IF Len(node.items) = 0 THEN used
            ELSE ListUsedDfs(SequenceNode(Tail(node.items)), sizes,
                             ListUsedDfs(Head(node.items), sizes, used))
      [] node.type = "LoopNode" -> ListUsedDfs(node.body, Append(sizes, node.size), used)

list_used_items(node) == ListUsedDfs(node, <<>>, <<>>)

-----------------------------------------------------------------------------
\* The statement emitters of library/cplusplus.py.  An emitter that can hit
\* "assert False" returns [raised, text].

Ok(text) == [raised |-> FALSE, text |-> text]
AssertionError == [raised |-> TRUE, text |-> ""]

_get_std(d) ==
    IF Truthy(Get(d.config, "using_namespace_std", PyBool("True"))) THEN "" ELSE "std::"

\* _declare_loop with a loop that also runs for var = size
_declare_loop_Inclusive(var, size, d) ==
    LET rep == Get(d.config, "rep_macro", None) IN
    IF rep.kind = "None"
    THEN Ok("for (int " \o var \o " = 0; " \o var \o " <= " \o size \o "; ++" \o var \o ")")
    ELSE IF rep.kind = "str"
    THEN Ok(rep.val \o " (" \o var \o ", " \o size \o ")")
    ELSE IF rep.kind = "callable"
    THEN Ok(RepHook(var, size))
    ELSE AssertionError

_declare_loop(var, size, d) ==
    LET rep == Get(d.config, "rep_macro", None) IN
    IF rep.kind = "None"
    THEN Ok("for (int " \o var \o " = 0; " \o var \o " < " \o size \o "; ++" \o var \o ")")
    ELSE IF rep.kind = "str"
    THEN Ok(rep.val \o " (" \o var \o ", " \o size \o ")")
    ELSE IF rep.kind = "callable"
    THEN Ok(RepHook(var, size))
    ELSE AssertionError

_read_int(var, d) ==
    LET scanner == Get(d.config, "scanner", None) IN
    IF scanner.kind = "None" \/ scanner = PyStr("scanf")
    THEN Ok("scanf(\"%d\", &" \o var \o ");")
    ELSE IF scanner \in {PyStr("cin"), PyStr("std::cin")}
    THEN Ok(_get_std(d) \o "cin >> " \o var \o ";")
    ELSE IF scanner.kind = "callable"
    THEN Ok(ScannerHook(var))
    ELSE AssertionError

_write_int(var, d) ==
    LET printer == Get(d.config, "printer", None) IN
    IF printer.kind = "None" \/ printer = PyStr("scanf")
    THEN Ok("printf(\"%d\\n\", &" \o var \o ");")
    ELSE IF printer \in {PyStr("cout"), PyStr("std::cout")}
    THEN Ok(_get_std(d) \o "cout << " \o var \o " << " \o _get_std(d) \o "endl;")
    ELSE IF printer.kind = "callable"
    THEN Ok(PrinterHook(var))
    ELSE AssertionError

\* the loop of _declare_variable run over dims instead of reversed(dims)
RECURSIVE DeclareFold_Forward(_, _, _, _)
DeclareFold_Forward(dims, type, ctor, d) ==
    IF Len(dims) = 0 THEN <<type, ctor>>
    ELSE DeclareFold_Forward(Tail(dims),
                             _get_std(d) \o "vector<" \o type \o ">",
                             "(" \o Head(dims) \o ", " \o type \o "(" \o ctor \o "))",
                             d)

\* the loop of _declare_variable, over reversed(dims): returns <<type, ctor>>
RECURSIVE DeclareFold(_, _, _, _)
DeclareFold(dims, type, ctor, d) ==
    IF Len(dims) = 0 THEN <<type, ctor>>
    ELSE LET dim == dims[Len(dims)] IN
         DeclareFold(SubSeq(dims, 1, Len(dims) - 1),
                     _get_std(d) \o "vector<" \o type \o ">",
                     "(" \o dim \o ", " \o type \o "(" \o ctor \o "))",
                     d)

_declare_variable(name, dims, d) ==
    LET tc == DeclareFold(dims, "int", "", d) IN
    tc[1] \o " " \o name \o tc[2] \o ";"

\* the fully indexed path of an item: name[i][j]...
RECURSIVE IndexedPath(_, _)
IndexedPath(var, indices) ==
    IF Len(indices) = 0 THEN var
    ELSE IndexedPath(var \o "[" \o Head(indices) \o "]", Tail(indices))

\* the read statement _read_input_dfs yields for an item
ItemRead(node, d) == "scanf(\"%d\", &" \o IndexedPath(node.name, node.indices) \o ");"

\* the ItemNode branch without the test "node.name not in declared"
ItemBranch_Redeclare(node, declared, dims, d) ==
    [ lines |-> <<_declare_variable(node.name, Lookup(dims, node.name), d), ItemRead(node, d)>>,
      declared |-> declared \cup {node.name},
      raised |-> FALSE ]

\* the ItemNode branch of _read_input_dfs
ItemBranch(node, declared, dims, d) ==
    [ lines |-> (IF node.name \notin declared
                 THEN <<_declare_variable(node.name, Lookup(dims, node.name), d)>>
                 ELSE <<>>) \o <<ItemRead(node, d)>>,
      declared |-> declared \cup {node.name},
      raised |-> FALSE ]

\* the header line without the opening brace appended
LoopHeader_NoBrace(node, d) == _declare_loop(node.name, node.size, d)

\* the first line of the LoopNode branch of _read_input_dfs
LoopHeader(node, d) ==
    LET h == _declare_loop(node.name, node.size, d) IN
    IF h.raised THEN h ELSE Ok(h.text \o " {")

\* the last line of the LoopNode branch of _read_input_dfs
LoopFooter == "}"

\* the generator _read_input_dfs run to its end or to the exception that ends
\* it: the lines it yields, the set declared afterwards, whether it raised
RECURSIVE _read_input_dfs(_, _, _, _)
_read_input_dfs(node, declared, dims, d) ==
    CASE node.type = "ItemNode" -> ItemBranch(node, declared, dims, d)
      [] node.type = "NewlineNode" ->
            [lines |-> <<>>, declared |-> declared, raised |-> FALSE]
      [] node.type = "SequenceNode" ->
            IF Len(node.items) = 0
            THEN [lines |-> <<>>, declared |-> declared, raised |-> FALSE]
            ELSE LET first == _read_input_dfs(Head(node.items), declared, dims, d) IN
                 IF first.raised THEN first
                 ELSE LET rest == _read_input_dfs(SequenceNode(Tail(node.items)),
                                                  first.declared, dims, d)
                      IN  [rest EXCEPT !.lines = first.lines \o rest.lines]
      [] node.type = "LoopNode" ->
            LET h == LoopHeader(node, d) IN
            IF h.raised
            THEN [lines |-> <<>>, declared |-> declared, raised |-> TRUE]
            ELSE LET body == _read_input_dfs(node.body, declared, dims, d) IN
                 [ lines |-> <<h.text>> \o body.lines
                             \o (IF body.raised THEN <<>> ELSE <<LoopFooter>>),
                   declared |-> body.declared,
                   raised |-> body.raised ]

\* the loop of arguments_types over reversed(dims): the parameter's type
RECURSIVE ArgumentType(_, _, _)
ArgumentType(dims, type, d) ==
    IF Len(dims) = 0 THEN type
    ELSE ArgumentType(SubSeq(dims, 1, Len(dims) - 1),
                      _get_std(d) \o "vector<" \o type \o ">", d)

\* the list decls without the const reference for containers
RECURSIVE ArgumentDecls_ByValue(_, _)
ArgumentDecls_ByValue(used, d) ==
    IF Len(used) = 0 THEN <<>>
    ELSE <<ArgumentType(used[1].dims, "int", d) \o " " \o used[1].name>>
         \o ArgumentDecls_ByValue(Tail(used), d)

\* the list decls of arguments_types
RECURSIVE ArgumentDecls(_, _)
ArgumentDecls(used, d) ==
    IF Len(used) = 0 THEN <<>>
    ELSE LET name == used[1].name
             dims == used[1].dims
             type == ArgumentType(dims, "int", d)
             qual == IF Len(dims) # 0 THEN "const " \o type \o " &" ELSE type
         IN  <<qual \o " " \o name>> \o ArgumentDecls(Tail(used), d)

arguments_types(d) == StrJoin(", ", ArgumentDecls(list_used_items(d.input), d))

arguments(d) == StrJoin(", ", Keys(list_used_items(d.input)))

return_type(d) == "auto"

-----------------------------------------------------------------------------
\* The library calls.  A call that returns leaves <<text>> in result; the
\* loop of _join_with_indent takes one step per line it pulls from lines.

NoResult == <<>>

CanCall == pc \in {"idle", "returned", "raised"}

NestArgs == 0..MaxNest

\* the value nest has when the loop of _join_with_indent starts
InitialNest(nestParam) == 1

\* the entry of _join_with_indent(lines, nest=n, data=data)
JoinStart(n) ==
    /\ nest' = InitialNest(n)
    /\ buf' = <<>>
    /\ pos' = 0
    /\ nestTrace' = <<[at |-> InitialNest(n), after |-> InitialNest(n)]>>

\* nest after the test line.startswith('}')
NestAt(line, nst) == IF startswith(line, "}") THEN nst - 1 ELSE nst

\* nest after the test line.endswith('{')
NestAfter(line, nst) == IF endswith(line, "{") THEN nst + 1 ELSE nst

read_input(n) ==
    /\ CanCall
    /\ LET dims == list_used_items(data.input)
           gen == _read_input_dfs(data.input, {}, dims, data)
       IN  /\ lines' = gen.lines
           /\ genRaises' = gen.raised
    /\ JoinStart(n)
    /\ fn' = "read_input"
    /\ nestArg' = n
    /\ result' = NoResult
    /\ pc' = "indenting"
    /\ UNCHANGED <<data, mainVars>>

write_output(n) ==
    /\ CanCall
    /\ fn' = "write_output"
    /\ nestArg' = n
    /\ result' = NoResult
    /\ genRaises' = FALSE
    /\ LET w == _write_int("ans", data) IN
       IF w.raised
       THEN /\ pc' = "raised"
            /\ lines' = <<>>
            /\ UNCHANGED <<nest, buf, pos, nestTrace>>
       ELSE /\ pc' = "indenting"
            /\ lines' = <<w.text>>
            /\ JoinStart(n)
    /\ UNCHANGED <<data, mainVars>>

\* one iteration of "for line in lines" of _join_with_indent
IndentLine ==
    /\ pc = "indenting"
    /\ pos < Len(lines)
    /\ LET line == lines[pos + 1]
           indent == Get(data.config, "indent", PyStr(StrMul(" ", 4))).val
           at == NestAt(line, nest)
       IN  /\ buf' = Append(buf, StrMul(indent, at) \o line)
           /\ nest' = NestAfter(line, at)
           /\ nestTrace' = Append(nestTrace, [at |-> at, after |-> NestAfter(line, at)])
    /\ pos' = pos + 1
    /\ UNCHANGED <<data, fn, nestArg, lines, genRaises, result, pc, mainVars>>

\* the generator is exhausted: return '\n'.join(buf)
JoinReturn ==
    /\ pc = "indenting"
    /\ pos = Len(lines)
    /\ ~genRaises
    /\ result' = <<StrJoin("\n", buf)>>
    /\ pc' = "returned"
    /\ UNCHANGED <<data, fn, nestArg, lines, genRaises, pos, nest, buf, nestTrace, mainVars>>

\* pulling the next line makes the generator hit "assert False": the
\* AssertionError leaves _join_with_indent and the caller, nothing is returned
GeneratorRaises ==
    /\ pc = "indenting"
    /\ pos = Len(lines)
    /\ genRaises
    /\ pc' = "raised"
    /\ UNCHANGED <<data, fn, nestArg, lines, genRaises, pos, nest, buf, nestTrace, result, mainVars>>

CallArgumentsTypes ==
    /\ CanCall
    /\ fn' = "arguments_types"
    /\ result' = <<arguments_types(data)>>
    /\ pc' = "returned"
    /\ UNCHANGED <<data, nestArg, lines, genRaises, pos, nest, buf, nestTrace, mainVars>>

CallArguments ==
    /\ CanCall
    /\ fn' = "arguments"
    /\ result' = <<arguments(data)>>
    /\ pc' = "returned"
    /\ UNCHANGED <<data, nestArg, lines, genRaises, pos, nest, buf, nestTrace, mainVars>>

CallReturnType ==
    /\ CanCall
    /\ fn' = "return_type"
    /\ result' = <<return_type(data)>>
    /\ pc' = "returned"
    /\ UNCHANGED <<data, nestArg, lines, genRaises, pos, nest, buf, nestTrace, mainVars>>

-----------------------------------------------------------------------------
\* prepare_problem (main.py): the loop over the template table, then the
\* sample download.

TemplatePool ==
    { [dest |-> "main.cpp", template |-> "template.cpp"],
      [dest |-> "generate.py", template |-> "generate.py"],
      [dest |-> "naive.cpp", template |-> "template.cpp"] }

\* the tables of at most MaxTemplates entries with distinct destinations
Tables ==
    UNION { { t \in [1..n -> TemplatePool] :
                \A x, y \in 1..n : x # y => t[x].dest # t[y].dest } :
            n \in 0..MaxTemplates }

\* what the analyzer (html.parse_*_format_string, parser.run) can do
AnalyzerOutcomes == {"ok", "AnalyzerError", "NotImplementedError"}

\* the number of positional parameters of generator.run
RunPositionalParams == 1

\* generator.run(*args, template_file=template): binding the arguments, then
\* rendering the template; the result is "ok" or the exception that leaves run
RunOutcomes(args, template) ==
    IF Len(args) # RunPositionalParams THEN {"TypeError"}
    ELSE IF args[1] = "None" THEN {"AttributeError", "NotImplementedError"}
    ELSE {"ok", "NotImplementedError", "AssertionError"}

\* the "analyze input" block of the loop body
AnalyzeInput ==
    /\ mainPc = "loop"
    /\ idx < Len(table)
    /\ stage = "analyze_input"
    /\ \E o \in AnalyzerOutcomes :
          IF o = "ok"
          THEN input_node' = "ast" /\ log' = log
          ELSE input_node' = "None" /\ log' = Append(log, "input analyzer failed")
    /\ stage' = "analyze_output"
    /\ UNCHANGED <<libVars, table, exists, idx, output_node, written, mainPc>>

\* the "analyze output" block of the loop body
AnalyzeOutput ==
    /\ mainPc = "loop"
    /\ idx < Len(table)
    /\ stage = "analyze_output"
    /\ \E o \in AnalyzerOutcomes :
          IF o = "ok"
          THEN output_node' = "ast" /\ log' = log
          ELSE output_node' = "None" /\ log' = Append(log, "output analyzer failed")
    /\ stage' = "generate"
    /\ UNCHANGED <<libVars, table, exists, idx, input_node, written, mainPc>>

\* the "generate" and "write" blocks of the loop body
GenerateAndWrite ==
    /\ mainPc = "loop"
    /\ idx < Len(table)
    /\ stage = "generate"
    /\ LET entry == table[idx + 1] IN
       \E o \in RunOutcomes(<<input_node, output_node>>, entry.template) :
          IF o = "NotImplementedError"
          THEN /\ log' = Append(log, "generator failed")
               /\ idx' = idx + 1
               /\ stage' = "analyze_input"
               /\ UNCHANGED <<written, mainPc>>
          ELSE IF o # "ok"
          THEN /\ mainPc' = "aborted"
               /\ UNCHANGED <<log, idx, stage, written>>
          ELSE /\ IF entry.dest \in exists \cup written
                  THEN log' = Append(log, "file already exists") /\ written' = written
                  ELSE log' = log /\ written' = written \cup {entry.dest}
               /\ idx' = idx + 1
               /\ stage' = "analyze_input"
               /\ UNCHANGED mainPc
    /\ UNCHANGED <<libVars, table, exists, input_node, output_node>>

\* after the loop: subprocess.check_call(['oj', 'download', url])
Download ==
    /\ mainPc = "loop"
    /\ idx = Len(table)
    /\ \E o \in {"ok", "CalledProcessError"} :
          log' = IF o = "ok" THEN log ELSE Append(log, "samples downloader failed")
    /\ mainPc' = "done"
    /\ UNCHANGED <<libVars, table, exists, idx, stage, input_node, output_node, written>>

-----------------------------------------------------------------------------
\* Specifications.

LibIdle ==
    /\ fn = "none"
    /\ nestArg = 1
    /\ lines = <<>>
    /\ genRaises = FALSE
    /\ pos = 0
    /\ nest = 1
    /\ buf = <<>>
    /\ nestTrace = <<>>
    /\ result = NoResult
    /\ pc = "idle"

MainIdle ==
    /\ idx = 0
    /\ stage = "analyze_input"
    /\ input_node = "None"
    /\ output_node = "None"
    /\ written = {}
    /\ log = <<>>
    /\ mainPc = "loop"

\* the library, called on one data dict
Init ==
    /\ data \in [input : FormatTrees, config : StyleConfigs]
    /\ LibIdle
    /\ table = <<>>
    /\ exists = {}
    /\ MainIdle

Next ==
    \/ \E n \in NestArgs : read_input(n)
    \/ \E n \in NestArgs : write_output(n)
    \/ IndentLine
    \/ JoinReturn
    \/ GeneratorRaises
    \/ CallArgumentsTypes
    \/ CallArguments
    \/ CallReturnType

Spec == Init /\ [][Next]_vars

\* one run of prepare_problem
InitMain ==
    /\ data = [input |-> NewlineNode, config |-> <<>>]
    /\ LibIdle
    /\ table \in Tables
    /\ exists \in SUBSET {e.dest : e \in TemplatePool}
    /\ MainIdle

NextMain ==
    \/ AnalyzeInput
    \/ AnalyzeOutput
    \/ GenerateAndWrite
    \/ Download

SpecMain == InitMain /\ [][NextMain]_vars

-----------------------------------------------------------------------------
\* Observers used by the properties below.

\* position of the first occurrence of p in s, 0 when there is none
RECURSIVE StrFindFrom(_, _, _)
StrFindFrom(s, p, at) ==
    IF Len(s) < Len(p) THEN 0
    ELSE IF startswith(s, p) THEN at
    ELSE StrFindFrom(Tail(s), p, at + 1)

StrFind(s, p) == StrFindFrom(s, p, 1)

StrContains(s, p) == StrFind(s, p) > 0

\* s.split(sep), with the empty string giving no part
RECURSIVE StrSplit(_, _)
StrSplit(s, sep) ==
    IF s = "" THEN <<>>
    ELSE LET at == StrFind(s, sep) IN
         IF at = 0 THEN <<s>>
         ELSE <<SubSeq(s, 1, at - 1)>> \o StrSplit(SubSeq(s, at + Len(sep), Len(s)), sep)

\* a line that declares a variable: a type, the name, then ';' or a constructor
IsDeclarationOf(line, name) ==
    /\ \/ startswith(line, "int ")
       \/ startswith(line, "vector<")
       \/ startswith(line, "std::vector<")
    /\ \/ StrContains(line, " " \o name \o ";")
       \/ StrContains(line, " " \o name \o "(")

\* the type of a declaration line: the text before the first blank
DeclaredType(line) == SubSeq(line, 1, StrFind(line, " ") - 1)

IsDeclaration(line) == \E name \in ItemNames : IsDeclarationOf(line, name)

DeclarationCount(ls, name) ==
    Cardinality({n \in 1..Len(ls) : IsDeclarationOf(ls[n], name)})

\* number of ItemNode nodes of the tree that carry the name
RECURSIVE ItemOccurrences(_, _)
ItemOccurrences(node, name) ==
    CASE node.type = "ItemNode" -> IF node.name = name THEN 1 ELSE 0
      [] node.type = "NewlineNode" -> 0
      [] node.type = "SequenceNode" ->
            IF Len(node.items) = 0 THEN 0
            ELSE ItemOccurrences(Head(node.items), name)
                 + ItemOccurrences(SequenceNode(Tail(node.items)), name)
      [] node.type = "LoopNode" -> ItemOccurrences(node.body, name)

\* number of LoopNode nodes of the tree
RECURSIVE LoopCount(_)
LoopCount(node) ==
    CASE node.type = "ItemNode" -> 0
      [] node.type = "NewlineNode" -> 0
      [] node.type = "SequenceNode" ->
            IF Len(node.items) = 0 THEN 0
            ELSE LoopCount(Head(node.items)) + LoopCount(SequenceNode(Tail(node.items)))
      [] node.type = "LoopNode" -> 1 + LoopCount(node.body)

\* for every LoopNode of the tree, the positions in the yielded line sequence
\* of its header line (s) and of its closing line (e), with its variable and
\* size; offset is the number of lines yielded before the node
RECURSIVE LoopSpans(_, _, _, _, _)
LoopSpans(node, declared, dims, d, offset) ==
    CASE node.type = "ItemNode" -> {}
      [] node.type = "NewlineNode" -> {}
      [] node.type = "SequenceNode" ->
            IF Len(node.items) = 0 THEN {}
            ELSE LET first == _read_input_dfs(Head(node.items), declared, dims, d) IN
                 LoopSpans(Head(node.items), declared, dims, d, offset)
                 \cup LoopSpans(SequenceNode(Tail(node.items)), first.declared, dims, d,
                                offset + Len(first.lines))
      [] node.type = "LoopNode" ->
            LET body == _read_input_dfs(node.body, declared, dims, d) IN
            {[s |-> offset + 1, e |-> offset + Len(body.lines) + 2,
              name |-> node.name, size |-> node.size]}
            \cup LoopSpans(node.body, declared, dims, d, offset + 1)

Spans == LoopSpans(data.input, {}, list_used_items(data.input), data, 0)

\* the indent unit of the style
IndentUnit == Get(data.config, "indent", PyStr("    ")).val

\* the counter's value before the first line, the value used to prefix line n
\* and the value after line n
StartNest == nestTrace[1].after
PrefixNest(n) == nestTrace[n + 1].at
AfterNest(n) == nestTrace[n + 1].after

\* a completed or running read_input whose generator does not raise
ReadingInput == fn = "read_input" /\ pc \in {"indenting", "returned"} /\ ~genRaises

-----------------------------------------------------------------------------
\* C1: the lines yielded by the input traversal contain exactly one
\* declaration statement for every variable name that occurs in at least one
\* ItemNode, however many ItemNodes carry the name and at whatever depths.
C1_DeclareOnce ==
    ReadingInput =>
        \A name \in ItemNames :
            DeclarationCount(lines, name)
                = (IF ItemOccurrences(data.input, name) >= 1 THEN 1 ELSE 0)

\* a returned read_input of a tree with a loop where a name occurs twice
C1_Witness ==
    /\ ReadingInput
    /\ pc = "returned"
    /\ LoopCount(data.input) >= 1
    /\ \E name \in ItemNames :
          /\ ItemOccurrences(data.input, name) >= 2
          /\ DeclarationCount(lines, name) = 1

\* C4: while the lines of a format tree are indented the nest counter is never
\* negative, and once the closing line of a loop has been processed the
\* counter has the value it had before the loop's header line; after the
\* whole tree it has the value it started with.
C4_IndentationBalance ==
    /\ pc \in {"indenting", "returned"} =>
          /\ nest >= 0
          /\ \A n \in 1..Len(nestTrace) : nestTrace[n].at >= 0 /\ nestTrace[n].after >= 0
    /\ ReadingInput =>
          /\ \A sp \in Spans :
                /\ endswith(lines[sp.s], "{")
                /\ startswith(lines[sp.e], "}")
                /\ sp.e <= pos => AfterNest(sp.e) = nestTrace[sp.s].after
          /\ pos = Len(lines) => nest = StartNest

\* read_input has returned for a tree with at least two loops
C4_Witness ==
    /\ ReadingInput
    /\ pc = "returned"
    /\ Cardinality(Spans) >= 2
    /\ \E sp \in Spans : sp.s > 1 /\ sp.e < Len(lines)
    /\ nest = StartNest

\* C5: a variable declared under d enclosing loops is declared with exactly d
\* container levels and d nested (size, default) constructor arguments, the
\* outer loop's size first; under no loop it is a plain "int name;".
C5_DimensionLevels ==
    (fn = "read_input" /\ pc \in {"indenting", "returned"}) =>
        \A n \in 1..pos :
            IsDeclaration(lines[n]) =>
                LET d == PrefixNest(n) - StartNest
                    line == lines[n]
                IN  /\ StrCount(DeclaredType(line), "vector<") = d
                    /\ StrCount(DeclaredType(line), ">") = d
                    /\ endswith(line, ";")
                    /\ StrCount(line, ", ") = d
                    /\ \A x \in 1..d : StrContains(line, "(" \o LoopSizes[x] \o ", ")
                    /\ \A x, y \in 1..d :
                          x < y => StrFind(line, "(" \o LoopSizes[x] \o ", ")
                                     < StrFind(line, "(" \o LoopSizes[y] \o ", ")
                    /\ d >= 1 => StrCount(line, "int()") = 1
                    /\ d = 0 => \E name \in ItemNames : line = "int " \o name \o ";"

\* read_input has returned the declaration of a variable read under two loops
C5_Witness ==
    /\ fn = "read_input"
    /\ pc = "returned"
    /\ \E n \in 1..pos :
          /\ IsDeclaration(lines[n])
          /\ PrefixNest(n) - StartNest = 2
          /\ StrCount(DeclaredType(lines[n]), "vector<") = 2

\* the header the kind of rep_macro selects
ExpectedLoopHeader(name, size) ==
    LET rep == Get(data.config, "rep_macro", None) IN
    CASE rep.kind = "None" ->
            "for (int " \o name \o " = 0; " \o name \o " < " \o size \o "; ++" \o name \o ")"
      [] rep.kind = "str" -> rep.val \o " (" \o name \o ", " \o size \o ")"
      [] rep.kind = "callable" -> RepHook(name, size)

\* line n stands in the body of the loop sp and in no loop nested in sp
DirectlyIn(sp, n) ==
    /\ sp.s < n
    /\ n < sp.e
    /\ ~\E in \in Spans : sp.s < in.s /\ in.s < n /\ n < in.e

\* the body of every loop one level deeper than its header, its closing line
\* at the header's depth, and each line prefixed accordingly
LoopBodiesIndented ==
    \A sp \in Spans :
        /\ lines[sp.e] = "}"
        /\ \A n \in 1..pos :
              /\ DirectlyIn(sp, n) => PrefixNest(n) = PrefixNest(sp.s) + 1
              /\ n = sp.e => PrefixNest(n) = PrefixNest(sp.s)
              /\ buf[n] = StrMul(IndentUnit, PrefixNest(n)) \o lines[n]

\* C9 as amended: the header line of a loop is chosen by the kind of
\* rep_macro alone (absent: a counted for loop from 0 to the size, exclusive;
\* a string: "MACRO (variable, size)"; a callable: the hook's result) and in
\* all three cases the traversal appends " {" to it; the lines directly in the
\* body are prefixed one indent unit deeper than the header, and the single
\* closing line that follows the body is prefixed like the header.
C9_LoopHeaderByKind ==
    ReadingInput =>
        /\ \A sp \in Spans : lines[sp.s] = ExpectedLoopHeader(sp.name, sp.size) \o " {"
        /\ LoopBodiesIndented

\* read_input has returned, under a macro style, a loop with a body line
C9_Witness ==
    /\ ReadingInput
    /\ pc = "returned"
    /\ Get(data.config, "rep_macro", None).kind = "str"
    /\ \E sp \in Spans : \E n \in 1..pos : DirectlyIn(sp, n)

\* C9 as stated: under a string rep_macro the header line is
\* "MACRO(variable, size)" and carries no opening brace emitted by the
\* generator, the body still being one level deeper and closed by one line.
C9_Original ==
    ReadingInput =>
        /\ \A sp \in Spans :
              Get(data.config, "rep_macro", None).kind = "str" =>
                 /\ startswith(lines[sp.s], Get(data.config, "rep_macro", None).val)
                 /\ ~StrContains(lines[sp.s], "{")
        /\ LoopBodiesIndented

\* C10: arguments and arguments_types list the variables of the dimension
\* table, one entry each, in the table's order; a variable without dimensions
\* is passed as "int name", one with d dimensions as a const reference to int
\* wrapped in d vector levels.
C10_Arguments ==
    LET used == list_used_items(data.input)
        names == Keys(used)
    IN  /\ (fn = "arguments" /\ pc = "returned") =>
              StrSplit(result[1], ", ") = names
        /\ (fn = "arguments_types" /\ pc = "returned") =>
              LET parts == StrSplit(result[1], ", ") IN
              /\ Len(parts) = Len(names)
              /\ \A n \in 1..Len(parts) :
                    LET d == Len(used[n].dims) IN
                    /\ endswith(parts[n], " " \o names[n])
                    /\ StrCount(parts[n], "vector<") = d
                    /\ StrCount(parts[n], ">") = d
                    /\ d = 0 => parts[n] = "int " \o names[n]
                    /\ d > 0 => /\ startswith(parts[n], "const ")
                                /\ endswith(parts[n], "> & " \o names[n])
                                /\ StrContains(parts[n], "<int>")

\* arguments_types has returned for a scalar and a one-dimensional variable
C10_Witness ==
    LET used == list_used_items(data.input) IN
    /\ fn = "arguments_types"
    /\ pc = "returned"
    /\ Len(used) = 2
    /\ Len(used[1].dims) = 0
    /\ Len(used[2].dims) = 1
    /\ StrContains(result[1], ", const ")

\* the fully indexed paths of the items of the tree
RECURSIVE ItemPaths(_)
ItemPaths(node) ==
    CASE node.type = "ItemNode" -> {IndexedPath(node.name, node.indices)}
      [] node.type = "NewlineNode" -> {}
      [] node.type = "SequenceNode" ->
            IF Len(node.items) = 0 THEN {}
            ELSE ItemPaths(Head(node.items)) \cup ItemPaths(SequenceNode(Tail(node.items)))
      [] node.type = "LoopNode" -> ItemPaths(node.body)

\* a yielded line that is neither a declaration nor a loop header or closing
IsReadLine(line) == ~IsDeclaration(line) /\ ~endswith(line, "{") /\ ~startswith(line, "}")

\* the read statement the scanner option selects for a path
ExpectedRead(path) ==
    LET scanner == Get(data.config, "scanner", None) IN
    CASE scanner.kind = "None" \/ scanner = PyStr("scanf") -> "scanf(\"%d\", &" \o path \o ");"
      [] scanner \in {PyStr("cin"), PyStr("std::cin")} -> _get_std(data) \o "cin >> " \o path \o ";"
      [] scanner.kind = "callable" -> ScannerHook(path)
      [] OTHER -> "unsupported"

\* C2: the read statement of every item is the one the scanner option selects:
\* absent or "scanf" a scanf call on the indexed path, "cin" a stream
\* extraction on the same path, a callable the hook's result for the path.
C2_ReadByScanner ==
    (ReadingInput /\ ExpectedRead("") # "unsupported") =>
        \A n \in 1..Len(lines) :
            IsReadLine(lines[n]) => \E path \in ItemPaths(data.input) : lines[n] = ExpectedRead(path)

\* the lines among the first n that end with '{', that start with '}'
Opened(n) == Cardinality({m \in 1..n : endswith(lines[m], "{")})
Closed(n) == Cardinality({m \in 1..n : startswith(lines[m], "}")})

\* C3: the indentation pass starts at the caller's depth: line n is prefixed
\* with nestArg + (lines before n ending with '{') - (lines up to n starting
\* with '}') indent units.
C3_StartDepth ==
    (fn \in {"read_input", "write_output"} /\ pc \in {"indenting", "returned"}) =>
        \A n \in 1..pos :
            buf[n] = StrMul(IndentUnit, nestArg + Opened(n - 1) - Closed(n)) \o lines[n]

\* the option is absent, a builtin token or a callable
Supported(option) ==
    LET v == Get(data.config, option, None) IN
    \/ v.kind \in {"None", "callable"}
    \/ option = "scanner" /\ v \in {PyStr("scanf"), PyStr("cin"), PyStr("std::cin")}
    \/ option = "printer" /\ v \in {PyStr("printf"), PyStr("cout"), PyStr("std::cout")}
    \/ option = "rep_macro" /\ v.kind = "str"

\* the tree has an ItemNode
HasItem == \E name \in ItemNames : ItemOccurrences(data.input, name) >= 1

\* C6: a scanner, printer or rep_macro value that is neither a builtin token
\* nor a callable makes the pass that uses it fail: it returns no text.
C6_UnsupportedFails ==
    /\ (fn = "read_input" /\ HasItem /\ ~Supported("scanner")) => pc # "returned"
    /\ (fn = "read_input" /\ LoopCount(data.input) >= 1 /\ ~Supported("rep_macro")) => pc # "returned"
    /\ (fn = "write_output" /\ ~Supported("printer")) => pc # "returned"

\* C8: write_output succeeds for each recognized printer value and emits the
\* statement it selects: absent or "printf" a printf call on the result
\* variable, "cout" a stream insertion, a callable the hook's result.
C8_WriteByPrinter ==
    LET printer == Get(data.config, "printer", None) IN
    (fn = "write_output" /\ pc # "indenting" /\ Supported("printer")) =>
        /\ pc = "returned"
        /\ printer.kind = "None" \/ printer = PyStr("printf") =>
              startswith(lines[1], "printf(") /\ StrContains(lines[1], "ans")
        /\ printer = PyStr("cout") => StrContains(lines[1], "cout << ans")
        /\ printer.kind = "callable" => lines[1] = PrinterHook("ans")

\* C7: a template whose analysis or generation fails is logged and skipped,
\* nothing is written for it, and the loop goes on: the run is never aborted
\* and ends only after every entry of the table has been iterated.
C7_FailureNeverAborts ==
    /\ mainPc # "aborted"
    /\ mainPc = "done" => idx = Len(table)

====
